---- MODULE Spec2Model ----
(***************************************************************************)
(* Model of the PDF/DOCX merger service (src/main.py).                     *)
(*                                                                         *)
(* File names and paths are sequences of one-character strings, so that    *)
(* os.path.splitext, os.path.basename, str.lower and the regular           *)
(* expression of extract_part_number are computed, not assumed.            *)
(* A file's content is a record [fmt, data]: a PDF is a sequence of pages, *)
(* a DOCX a sequence of block-level elements, an archive a sequence of     *)
(* members.                                                                *)
(***************************************************************************)
EXTENDS Integers, Sequences, FiniteSets, TLC

VARIABLES uploads, reqs, call

vars == <<uploads, reqs, call>>

(***************************************************************************)
(* Bounds of the model.                                                    *)
(***************************************************************************)
MaxTokens == 4
MaxFiles == 3
MaxMembers == 3
MaxMergeInputs == 3
MaxConcFiles == 2

(***************************************************************************)
(* Characters and strings.                                                 *)
(***************************************************************************)
Digits == {"0", "1", "2", "3", "4", "5", "6", "7", "8", "9"}

DigitVal(c) ==
    CASE c = "0" -> 0 [] c = "1" -> 1 [] c = "2" -> 2 [] c = "3" -> 3
      [] c = "4" -> 4 [] c = "5" -> 5 [] c = "6" -> 6 [] c = "7" -> 7
      [] c = "8" -> 8 [] c = "9" -> 9

LowerChar(c) ==
    CASE c = "P" -> "p" [] c = "A" -> "a" [] c = "R" -> "r" [] c = "T" -> "t"
      [] c = "D" -> "d" [] c = "F" -> "f" [] c = "Z" -> "z" [] c = "I" -> "i"
      [] c = "O" -> "o" [] c = "C" -> "c" [] c = "X" -> "x"
      [] OTHER -> c

\* str.lower()
Lower(s) == [i \in 1..Len(s) |-> LowerChar(s[i])]

\* str.rfind(c): the last index of c in s, 0 when absent (Python: -1)
RECURSIVE RFindFrom(_, _, _)
RFindFrom(s, c, i) ==
    IF i = 0 THEN 0
    ELSE IF s[i] = c THEN i
    ELSE RFindFrom(s, c, i - 1)

RFind(s, c) == RFindFrom(s, c, Len(s))

\* s[i:] with a 1-based first index
Suffix(s, i) == IF i > Len(s) THEN <<>> ELSE SubSeq(s, i, Len(s))

\* os.path.basename
Basename(p) == Suffix(p, RFind(p, "/") + 1)

\* os.path.splitext(p)[1]: the text from the last dot of the last path
\* component, unless that component has only dots before it
RECURSIVE HasNonDot(_, _, _)
HasNonDot(p, i, dotIndex) ==
    IF i >= dotIndex THEN FALSE
    ELSE IF p[i] # "." THEN TRUE
    ELSE HasNonDot(p, i + 1, dotIndex)

SplitExt(p) ==
    LET sepIndex == RFind(p, "/")
        dotIndex == RFind(p, ".")
    IN IF dotIndex > sepIndex /\ HasNonDot(p, sepIndex + 1, dotIndex)
       THEN Suffix(p, dotIndex)
       ELSE <<>>

EndsWith(s, c) == Len(s) > 0 /\ s[Len(s)] = c

(***************************************************************************)
(* extract_part_number: re.search(r'part(\d+)', filename.lower())          *)
(***************************************************************************)
\* the pattern matches at position i of the lower-cased name
MatchAt(s, i) ==
    /\ i + 4 <= Len(s)
    /\ s[i] = "p" /\ s[i + 1] = "a" /\ s[i + 2] = "r" /\ s[i + 3] = "t"
    /\ s[i + 4] \in Digits

\* re.search scans the start positions from the left; 0 when no match
RECURSIVE SearchFrom(_, _)
SearchFrom(s, i) ==
    IF i > Len(s) THEN 0
    ELSE IF MatchAt(s, i) THEN i
    ELSE SearchFrom(s, i + 1)

\* a search that keeps the last matching start position
RECURSIVE SearchLastFrom(_, _)
SearchLastFrom(s, i) ==
    IF i < 1 THEN 0
    ELSE IF MatchAt(s, i) THEN i
    ELSE SearchLastFrom(s, i - 1)

\* \d+ is greedy: the group runs to the last digit of the run starting at j
RECURSIVE GroupEnd(_, _)
GroupEnd(s, j) ==
    IF j + 1 <= Len(s) /\ s[j + 1] \in Digits THEN GroupEnd(s, j + 1) ELSE j

\* int(match.group(1))
RECURSIVE ToInt(_, _, _, _)
ToInt(s, j, last, acc) ==
    IF j > last THEN acc
    ELSE ToInt(s, j + 1, last, acc * 10 + DigitVal(s[j]))

extract_part_number_last(filename) ==
    LET s == Lower(filename)
        m == SearchLastFrom(s, Len(s))
    IN IF m # 0 THEN ToInt(s, m + 4, GroupEnd(s, m + 4), 0) ELSE 0

extract_part_number(filename) ==
    LET s == Lower(filename)
        m == SearchFrom(s, 1)
    IN IF m # 0 THEN ToInt(s, m + 4, GroupEnd(s, m + 4), 0) ELSE 0

(***************************************************************************)
(* File names used as inputs of extract_part_number: every concatenation   *)
(* of up to MaxTokens tokens.                                              *)
(***************************************************************************)
NameTokens ==
    { <<"p", "a", "r", "t">>, <<"P", "a", "R", "t">>, <<"p", "a", "r">>,
      <<"1">>, <<"2">>, <<"0">>, <<"_">>, <<"x", ".", "p", "d", "f">> }

RECURSIVE Names(_)
Names(n) ==
    IF n = 0 THEN {<<>>}
    ELSE LET shorter == Names(n - 1)
         IN shorter \cup {s \o t : s \in shorter, t \in NameTokens}

NoCall == [fn |-> "none"]

CallExtractPartNumber ==
    /\ call = NoCall
    /\ \E filename \in Names(MaxTokens) :
          call' = [fn |-> "extract_part_number", filename |-> filename,
                   ret |-> extract_part_number(filename)]
    /\ UNCHANGED <<uploads, reqs>>

InitCalls ==
    /\ uploads = <<>>
    /\ reqs = <<>>
    /\ call = NoCall

NextPart == CallExtractPartNumber

SpecPart == InitCalls /\ [][NextPart]_vars

(***************************************************************************)
(* C2                                                                      *)
(***************************************************************************)
\* the decimal value of s[first..last]
RECURSIVE Pow10(_)
Pow10(n) == IF n = 0 THEN 1 ELSE 10 * Pow10(n - 1)

RECURSIVE DecimalSum(_, _, _)
DecimalSum(s, first, last) ==
    IF first > last THEN 0
    ELSE DigitVal(s[first]) * Pow10(last - first) + DecimalSum(s, first + 1, last)

\* "part" in any case immediately followed by a digit, at position i of f
Occurrence(f, i) ==
    /\ i >= 1 /\ i + 4 <= Len(f)
    /\ f[i] \in {"p", "P"} /\ f[i + 1] \in {"a", "A"}
    /\ f[i + 2] \in {"r", "R"} /\ f[i + 3] \in {"t", "T"}
    /\ f[i + 4] \in Digits

PartCalled == call.fn = "extract_part_number"

\* C2: extract_part_number returns the integer written by the whole digit run
\* after the first case-insensitive occurrence of "part" followed by a digit,
\* and 0 when the file name has no such occurrence.
C2_FirstPartToken ==
    PartCalled =>
        LET f == call.filename
            occ == {i \in 1..Len(f) : Occurrence(f, i)}
        IN IF occ = {} THEN call.ret = 0
           ELSE \E i \in occ :
                  /\ \A k \in occ : i <= k
                  /\ \E j \in (i + 4)..Len(f) :
                        /\ \A d \in (i + 4)..j : f[d] \in Digits
                        /\ (j = Len(f) \/ f[j + 1] \notin Digits)
                        /\ call.ret = DecimalSum(f, i + 4, j)

\* a name with two part tokens of different numbers: the first one decided
C2_Witness ==
    /\ PartCalled
    /\ \E i, k \in 1..Len(call.filename) :
          /\ i < k
          /\ Occurrence(call.filename, i) /\ Occurrence(call.filename, k)
          /\ call.ret = 2
          /\ extract_part_number_last(call.filename) = 1

(***************************************************************************)
(* File contents.  pkg is the byte-level serialisation of the container:   *)
(* a file written by PdfWriter.write or Document.save is a new             *)
(* serialisation of the parsed content, not a copy of the bytes read.      *)
(***************************************************************************)
Page(id) == [kind |-> "page", id |-> id]
Para(id) == [kind |-> "p", id |-> id]
Table(id) == [kind |-> "t", id |-> id]

\* section.start_type = 2 (WD_SECTION.NEW_PAGE)
NEW_PAGE == 2

\* the paragraph that carries the section break added by Document.add_section
SectionBreak(start_type) == [kind |-> "sect", id |-> start_type]

PdfFile(pages) == [fmt |-> "pdf", pkg |-> "uploaded", data |-> pages]
DocxFile(body) == [fmt |-> "docx", pkg |-> "uploaded", data |-> body]
Junk == [fmt |-> "junk", pkg |-> "uploaded", data |-> <<>>]
NoFile == [fmt |-> "none", pkg |-> "none", data |-> <<>>]

\* PdfReader(file_path) and docx.Document(file_path) parse by content
PdfReadable(file) == file.fmt = "pdf"
DocxReadable(file) == file.fmt = "docx"

(***************************************************************************)
(* merge_pdf_files                                                         *)
(***************************************************************************)
\* for page in reader.pages: merger.add_page(page), pages put in front
RECURSIVE AddPagesFront(_, _, _)
AddPagesFront(merger, pages, k) ==
    IF k > Len(pages) THEN merger
    ELSE AddPagesFront(<<pages[k]>> \o merger, pages, k + 1)

\* for page in reader.pages: merger.add_page(page)
RECURSIVE AddPages(_, _, _)
AddPages(merger, pages, k) ==
    IF k > Len(pages) THEN merger
    ELSE AddPages(Append(merger, pages[k]), pages, k + 1)

\* for file_path in file_paths: reader = PdfReader(file_path); ...
\* opened counts the inputs PdfReader was called on
RECURSIVE PdfLoop(_, _, _)
PdfLoop(files, i, merger) ==
    IF i > Len(files) THEN [ok |-> TRUE, opened |-> Len(files), pages |-> merger]
    ELSE IF ~PdfReadable(files[i]) THEN [ok |-> FALSE, opened |-> i, pages |-> merger]
    ELSE PdfLoop(files, i + 1, AddPages(merger, files[i].data, 1))

\* a merge that opens (and so truncates) the output before reading the inputs
merge_pdf_files_open_first(files, old) ==
    LET r == PdfLoop(files, 1, <<>>)
    IN IF r.ok
       THEN [ok |-> TRUE, opened |-> r.opened,
             file |-> [fmt |-> "pdf", pkg |-> "pypdf", data |-> r.pages]]
       ELSE [ok |-> FALSE, opened |-> r.opened,
             file |-> [fmt |-> "junk", pkg |-> "pypdf", data |-> <<>>]]

\* files: the contents at file_paths; old: the content at output_path before
\* the call (NoFile when absent); file: the content at output_path after it
merge_pdf_files(files, old) ==
    LET r == PdfLoop(files, 1, <<>>)
    IN IF r.ok
       THEN [ok |-> TRUE, opened |-> r.opened,
             file |-> [fmt |-> "pdf", pkg |-> "pypdf", data |-> r.pages]]
       ELSE [ok |-> FALSE, opened |-> r.opened, file |-> old]

(***************************************************************************)
(* merge_docx_files_custom                                                 *)
(***************************************************************************)
IsPara(b) == b.kind = "p"
IsTable(b) == b.kind = "t"

\* doc.paragraphs / doc.tables: the top-level paragraphs / tables, in order
Paragraphs(body) == SelectSeq(body, IsPara)
Tables(body) == SelectSeq(body, IsTable)

\* first_doc.add_section(); section.start_type = 2
AddSection(body) == Append(body, SectionBreak(NEW_PAGE))

\* the copy loops of one appended document: every paragraph, then every table
AppendDocument(body, doc) == body \o Paragraphs(doc) \o Tables(doc)

\* the body of the loop over the appended documents
RECURSIVE DocxLoop(_, _, _)
DocxLoop(files, i, body) ==
    IF i > Len(files) THEN [ok |-> TRUE, opened |-> Len(files), body |-> body]
    ELSE LET withBreak == AddSection(body)
         IN IF ~DocxReadable(files[i])
            THEN [ok |-> FALSE, opened |-> i, body |-> withBreak]
            ELSE DocxLoop(files, i + 1, AppendDocument(withBreak, files[i].data))

\* a loop over file_paths instead of file_paths[1:]
DocxRestFromFirst(files, i, body) == DocxLoop(files, 1, body)

\* for i, file_path in enumerate(file_paths[1:], 1): ...
DocxRest(files, i, body) == DocxLoop(files, i, body)

merge_docx_files_custom(files, old) ==
    IF Len(files) = 0 THEN [ok |-> TRUE, opened |-> 0, file |-> old]
    ELSE IF ~DocxReadable(files[1]) THEN [ok |-> FALSE, opened |-> 1, file |-> old]
    ELSE LET r == DocxRest(files, 2, files[1].data)
         IN IF r.ok
            THEN [ok |-> TRUE, opened |-> r.opened,
                  file |-> [fmt |-> "docx", pkg |-> "python-docx", data |-> r.body]]
            ELSE [ok |-> FALSE, opened |-> r.opened, file |-> old]

(***************************************************************************)
(* The output directory uploads/: a function from the paths written so far *)
(* to file contents.                                                       *)
(***************************************************************************)
ReadOut(dir, path) == IF path \in DOMAIN dir THEN dir[path] ELSE NoFile

\* the directory after a call that left file at path (NoFile: still absent)
Store(dir, path, file) == IF file.fmt = "none" THEN dir ELSE (path :> file) @@ dir

UploadsDir == <<"u", "p", "l", "o", "a", "d", "s", "/">>
ExtPdf == <<".", "p", "d", "f">>
ExtDocx == <<".", "d", "o", "c", "x">>
ExtDoc == <<".", "d", "o", "c">>
ExtZip == <<".", "z", "i", "p">>
ExtRar == <<".", "r", "a", "r">>

(***************************************************************************)
(* The merge functions called on their own: SpecMerge.                     *)
(***************************************************************************)
PdfA == PdfFile(<<Page(11), Page(12)>>)
PdfB == PdfFile(<<Page(21), Page(22), Page(23)>>)
DocxA == DocxFile(<<Para(41)>>)
DocxB == DocxFile(<<Table(51), Para(52)>>)

PdfInputs == {PdfA, PdfB, Junk}

DocxInputs == {DocxA, DocxB, Junk}

\* the lists of at most n elements of S
Lists(S, n) == UNION {[1..k -> S] : k \in 0..n}

MergedPdfPath == UploadsDir \o <<"m">> \o ExtPdf
MergedDocxPath == UploadsDir \o <<"m">> \o ExtDocx

CallMergePdfFiles ==
    /\ call = NoCall
    /\ \E files \in Lists(PdfInputs, MaxMergeInputs) :
          LET r == merge_pdf_files(files, ReadOut(uploads, MergedPdfPath))
          IN /\ uploads' = Store(uploads, MergedPdfPath, r.file)
             /\ call' = [fn |-> "merge_pdf_files", files |-> files,
                         output_path |-> MergedPdfPath,
                         ok |-> r.ok, opened |-> r.opened]
    /\ UNCHANGED reqs

CallMergeDocxFilesCustom ==
    /\ call = NoCall
    /\ \E files \in Lists(DocxInputs, MaxMergeInputs) :
          LET r == merge_docx_files_custom(files, ReadOut(uploads, MergedDocxPath))
          IN /\ uploads' = Store(uploads, MergedDocxPath, r.file)
             /\ call' = [fn |-> "merge_docx_files_custom", files |-> files,
                         output_path |-> MergedDocxPath,
                         ok |-> r.ok, opened |-> r.opened]
    /\ UNCHANGED reqs

\* the call returns (or raises) to its caller
Return ==
    /\ call # NoCall
    /\ call' = NoCall
    /\ UNCHANGED <<uploads, reqs>>

NextMerge == CallMergePdfFiles \/ CallMergeDocxFilesCustom \/ Return

SpecMerge == InitCalls /\ [][NextMerge]_vars

(***************************************************************************)
(* C4                                                                      *)
(***************************************************************************)
RECURSIVE SumLen(_, _)
SumLen(files, n) == IF n = 0 THEN 0 ELSE SumLen(files, n - 1) + Len(files[n].data)

PdfCalled == call.fn = "merge_pdf_files"
AllPdfReadable == \A i \in 1..Len(call.files) : call.files[i].fmt = "pdf"

\* C4: merging readable PDFs writes the concatenation of the inputs' page
\* sequences, in list order and in each input's page order; the page count is
\* the sum of the inputs' page counts.
C4_PdfConcatenation ==
    (PdfCalled /\ AllPdfReadable) =>
        /\ call.ok
        /\ call.output_path \in DOMAIN uploads
        /\ LET out == uploads[call.output_path]
               files == call.files
           IN /\ out.fmt = "pdf"
              /\ Len(out.data) = SumLen(files, Len(files))
              /\ \A i \in 1..Len(files) : \A j \in 1..Len(files[i].data) :
                    out.data[SumLen(files, i - 1) + j] = files[i].data[j]

\* a 2-page and a 3-page input, in that order, gave 5 pages
C4_Witness ==
    /\ PdfCalled /\ AllPdfReadable
    /\ Len(call.files) = 2
    /\ Len(call.files[1].data) = 2 /\ Len(call.files[2].data) = 3
    /\ Len(uploads[call.output_path].data) = 5

(***************************************************************************)
(* C3, C6                                                                  *)
(***************************************************************************)
DocxCalled == call.fn = "merge_docx_files_custom"
AllDocxReadable == \A i \in 1..Len(call.files) : call.files[i].fmt = "docx"

\* the inputs' bodies in list order, one break between adjacent inputs
RECURSIVE JoinWithBreaks(_, _)
JoinWithBreaks(files, n) ==
    IF n = 1 THEN files[1].data
    ELSE JoinWithBreaks(files, n - 1) \o <<SectionBreak(NEW_PAGE)>> \o files[n].data

\* C3: for two or more DOCX inputs the output holds every paragraph and table
\* of every input, in input order and in each input's own document order, with
\* exactly one section break between adjacent inputs.
C3_DocxBlocksInOrder ==
    (DocxCalled /\ AllDocxReadable /\ Len(call.files) >= 2) =>
        /\ call.ok
        /\ call.output_path \in DOMAIN uploads
        /\ uploads[call.output_path].data = JoinWithBreaks(call.files, Len(call.files))

\* C6: for exactly one DOCX input the output is a DOCX with the input's body,
\* block for block: nothing added, removed or altered.
C6_SingleDocxPassthrough ==
    (DocxCalled /\ AllDocxReadable /\ Len(call.files) = 1) =>
        /\ call.ok
        /\ call.output_path \in DOMAIN uploads
        /\ uploads[call.output_path].fmt = "docx"
        /\ uploads[call.output_path].data = call.files[1].data

\* a single input holding a table and a paragraph was merged
C6_Witness ==
    /\ DocxCalled /\ AllDocxReadable /\ Len(call.files) = 1
    /\ \E i, j \in 1..Len(call.files[1].data) :
          call.files[1].data[i].kind = "t" /\ call.files[1].data[j].kind = "p"
    /\ call.output_path \in DOMAIN uploads

(***************************************************************************)
(* C7                                                                      *)
(***************************************************************************)
MergeCalled == call.fn \in {"merge_pdf_files", "merge_docx_files_custom"}

Unreadable(c, i) ==
    IF c.fn = "merge_pdf_files" THEN c.files[i].fmt # "pdf" ELSE c.files[i].fmt # "docx"

\* a merge call that failed stopped at its first unreadable input
AbortedAtFirst(c) ==
    /\ c.opened \in 1..Len(c.files)
    /\ Unreadable(c, c.opened)
    /\ \A k \in 1..(c.opened - 1) : ~Unreadable(c, k)

\* C7: a merge with an unreadable input aborts at the first such input and
\* leaves the output directory as it was: the output path is neither created
\* nor changed.
C7_FailedMergeWritesNothing ==
    [][ (call'.fn \in {"merge_pdf_files", "merge_docx_files_custom"} /\ call.fn = "none")
          => /\ (\E i \in 1..Len(call'.files) : Unreadable(call', i)) <=> ~call'.ok
             /\ ~call'.ok => (uploads' = uploads /\ AbortedAtFirst(call')) ]_vars

\* a merge failed on an input that was not the first, with an earlier output
\* still in place
C7_Witness ==
    /\ MergeCalled /\ ~call.ok
    /\ call.opened >= 2
    /\ call.output_path \in DOMAIN uploads

(***************************************************************************)
(* extract_compressed_file                                                 *)
(***************************************************************************)
\* an archive file: data is the member list, in the order of namelist()
Archive(fmt, members) == [fmt |-> fmt, pkg |-> "uploaded", data |-> members]

\* a member of an archive: a file, or a directory entry
Member(name, file) == [name |-> name, dir |-> FALSE, file |-> file]
DirEntry(name) == [name |-> name, dir |-> TRUE, file |-> NoFile]

\* what each extractor accepts: zipfile.ZipFile and rarfile.RarFile parse one
\* format each, patoolib.extract_archive every archive format it knows
Recognises(extractor, file) ==
    CASE extractor = "zip" -> file.fmt = "zip"
      [] extractor = "rar" -> file.fmt = "rar"
      [] extractor = "generic" -> file.fmt \in {"zip", "rar", "tar"}

\* an extension taken without lower-casing it
ArchiveExtAsWritten(file_path) == SplitExt(file_path)

\* file_ext = os.path.splitext(file_path)[1].lower()
ArchiveExt(file_path) == Lower(SplitExt(file_path))

\* if file_ext == '.zip': ... elif file_ext == '.rar': ... else: ...
ChosenExtractor(file_path) ==
    LET file_ext == ArchiveExt(file_path)
    IN IF file_ext = ExtZip THEN "zip"
       ELSE IF file_ext = ExtRar THEN "rar"
       ELSE "generic"

NotZipDir(m) == ~EndsWith(m.name, "/")
NotRarDir(m) == ~m.dir

RECURSIVE NamesOf(_)
NamesOf(members) ==
    IF members = <<>> THEN <<>>
    ELSE <<Head(members).name>> \o NamesOf(Tail(members))

\* the orders in which os.walk can list a set of files
Orders(names) ==
    LET S == {names[i] : i \in 1..Len(names)}
    IN {q \in [1..Cardinality(S) -> S] : \A n \in S : \E i \in DOMAIN q : q[i] = n}

\* the outcomes of one call: the extractor tried, whether it raised (raised as
\* HTTPException 400), and the extracted file names relative to extract_dir
ExtractCompressedFile(file_path, file) ==
    LET extractor == ChosenExtractor(file_path)
    IN IF ~Recognises(extractor, file)
       THEN {[ok |-> FALSE, status |-> 400, tried |-> <<extractor>>,
              extracted_files |-> <<>>]}
       ELSE IF extractor = "zip"
       THEN {[ok |-> TRUE, status |-> 200, tried |-> <<extractor>>,
              extracted_files |-> NamesOf(SelectSeq(file.data, NotZipDir))]}
       ELSE IF extractor = "rar"
       THEN {[ok |-> TRUE, status |-> 200, tried |-> <<extractor>>,
              extracted_files |-> NamesOf(SelectSeq(file.data, NotRarDir))]}
       ELSE {[ok |-> TRUE, status |-> 200, tried |-> <<extractor>>,
              extracted_files |-> q] :
                q \in Orders(NamesOf(SelectSeq(file.data, NotRarDir)))}

(***************************************************************************)
(* File names of the uploads and of the archive members.                   *)
(***************************************************************************)
PartTok == <<"p", "a", "r", "t">>
NamePart1Pdf == <<"x", "_">> \o PartTok \o <<"1">> \o ExtPdf
NamePart2Pdf == <<"x", "_">> \o PartTok \o <<"2">> \o ExtPdf
NameNoPartPdf == <<"a", ".", "P", "D", "F">>
NameSubdirPdf == PartTok \o <<"9", "/", "b", "_">> \o PartTok \o <<"1">> \o ExtPdf
NamePart1Docx == <<"x", "_">> \o PartTok \o <<"1">> \o ExtDocx
NamePart2Docx == <<"x", "_">> \o PartTok \o <<"2">> \o ExtDocx
NameTxt == <<"n", ".", "t", "x", "t">>
NameDir == <<"d", "/">>

NameUnreadablePdf == <<"b">> \o ExtPdf

MemberPool ==
    { Member(NamePart2Pdf, PdfB), Member(NamePart1Pdf, PdfA),
      Member(NameNoPartPdf, PdfA), Member(NameSubdirPdf, PdfB),
      Member(NamePart1Docx, DocxA), Member(NameTxt, Junk), DirEntry(NameDir) }

ArchivePaths ==
    { <<"c">> \o ExtZip, <<"c", ".", "Z", "I", "P">>, <<"c">> \o ExtRar,
      <<"c", ".", "t", "a", "r">>, <<"z", "i", "p">>, ExtZip,
      <<"c">> \o ExtRar \o ExtZip }

ArchiveFormats == {"zip", "rar", "tar", "junk"}

CallExtractCompressedFile ==
    /\ call = NoCall
    /\ \E file_path \in ArchivePaths, fmt \in ArchiveFormats,
          members \in Lists(MemberPool, MaxMembers) :
          \E r \in ExtractCompressedFile(file_path, Archive(fmt, members)) :
             call' = [fn |-> "extract_compressed_file", file_path |-> file_path,
                      file |-> Archive(fmt, members), ok |-> r.ok,
                      status |-> r.status, tried |-> r.tried,
                      extracted_files |-> r.extracted_files]
    /\ UNCHANGED <<uploads, reqs>>

NextExtract == CallExtractCompressedFile

SpecExtract == InitCalls /\ [][NextExtract]_vars

(***************************************************************************)
(* C9                                                                      *)
(***************************************************************************)
ExtractCalled == call.fn = "extract_compressed_file"

FormatOrder == <<"zip", "rar", "generic">>

\* C9, as claimed: the formats are tried in the order ZIP, RAR, generic; the
\* call goes on to the next format when one does not recognise the input, and
\* fails only after all three were tried.
C9_FallbackChain ==
    ExtractCalled =>
        /\ \E n \in 1..3 : call.tried = SubSeq(FormatOrder, 1, n)
        /\ ~call.ok => call.tried = FormatOrder
        /\ (\E e \in {"zip", "rar", "generic"} : Recognises(e, call.file)) => call.ok

\* the file name ends with the extension ext, in any case, after a base name
\* that is more than dots
HasExtension(path, ext) ==
    LET n == Len(path)
        k == Len(ext)
    IN /\ n > k
       /\ \A i \in 1..k : LowerChar(path[n - k + i]) = ext[i]
       /\ \E i \in 1..(n - k) :
             /\ path[i] # "."
             /\ \A j \in i..(n - k) : path[j] # "/"

\* C9, amended: exactly one extractor is tried, the one the lower-cased file
\* extension selects (.zip: ZIP, .rar: RAR, any other: generic); the call
\* succeeds when that extractor recognises the input and fails with status
\* 400 otherwise, without trying another format.
C9_OneExtractorByExtension ==
    ExtractCalled =>
        LET expected == IF HasExtension(call.file_path, ExtZip) THEN "zip"
                        ELSE IF HasExtension(call.file_path, ExtRar) THEN "rar"
                        ELSE "generic"
        IN /\ call.tried = <<expected>>
           /\ call.ok <=> Recognises(expected, call.file)
           /\ ~call.ok => call.status = 400

\* RAR content under an upper-case .ZIP name: only ZIP was tried, and it failed
C9_Witness ==
    /\ ExtractCalled
    /\ call.file.fmt = "rar"
    /\ call.file_path = <<"c", ".", "Z", "I", "P">>
    /\ call.tried = <<"zip">>
    /\ ~call.ok

(***************************************************************************)
(* The request's temporary directory: the sequence of the writes made to   *)
(* it; a path reads as its last write.  A path is the directory below      *)
(* temp_dir (<<>>: temp_dir itself) and the name below that directory.     *)
(***************************************************************************)
TempPath(dir, name) == [dir |-> dir, name |-> name]

\* the path as a string, below temp_dir
FullPath(p) ==
    IF p.dir = <<>> THEN <<"/">> \o p.name ELSE <<"/">> \o p.dir \o <<"/">> \o p.name

RECURSIVE ReadTemp(_, _, _)
ReadTemp(store, path, i) ==
    IF i = 0 THEN NoFile
    ELSE IF store[i].path = path THEN store[i].file
    ELSE ReadTemp(store, path, i - 1)

ReadAll(store, paths) == [i \in 1..Len(paths) |-> ReadTemp(store, paths[i], Len(store))]

\* extractall: every member that is a file is written below extract_dir
RECURSIVE ExtractAll(_, _)
ExtractAll(dir, members) ==
    IF members = <<>> THEN <<>>
    ELSE LET m == Head(members)
         IN (IF m.dir THEN <<>>
             ELSE <<[path |-> TempPath(dir, m.name), file |-> m.file]>>)
            \o ExtractAll(dir, Tail(members))

\* [os.path.join(extract_dir, name) for name in ...]
JoinAll(dir, names) == [i \in 1..Len(names) |-> TempPath(dir, names[i])]

\* the one outcome of extract_compressed_file on a .zip or .rar name
ExtractOne(file_path, file) == CHOOSE r \in ExtractCompressedFile(file_path, file) : TRUE

(***************************************************************************)
(* filter_files_by_extension, sorted(..., key=extract_part_number)         *)
(***************************************************************************)
ValidExtensions == {ExtPdf, ExtDocx, ExtDoc}
ArchiveExtensions == {ExtZip, ExtRar}

\* an extension compared as written
PathExtAsWritten(p) == SplitExt(FullPath(p))

\* os.path.splitext(path)[1].lower()
PathExt(p) == Lower(SplitExt(FullPath(p)))

IsValidPath(p) == PathExt(p) \in ValidExtensions

filter_files_by_extension(file_paths) == SelectSeq(file_paths, IsValidPath)

\* list.insert of index k behind every index whose key is not greater
RECURSIVE InsertByKey(_, _, _, _)
InsertByKey(perm, k, keys, j) ==
    IF j > Len(perm) THEN Append(perm, k)
    ELSE IF keys[perm[j]] > keys[k]
    THEN SubSeq(perm, 1, j - 1) \o <<k>> \o SubSeq(perm, j, Len(perm))
    ELSE InsertByKey(perm, k, keys, j + 1)

\* sorted() is stable: the indices of keys in ascending order of key, equal
\* keys in their original order
RECURSIVE SortedIndices(_, _)
SortedIndices(keys, n) ==
    IF n = 0 THEN <<>>
    ELSE InsertByKey(SortedIndices(keys, n - 1), n, keys, 1)

Sorted(items, keys) ==
    LET perm == SortedIndices(keys, Len(keys))
    IN [i \in 1..Len(items) |-> items[perm[i]]]

\* sorted(filtered_files, key=lambda path: extract_part_number(os.path.basename(path)))
SortPaths(paths) ==
    Sorted(paths, [i \in 1..Len(paths) |-> extract_part_number(Basename(FullPath(paths[i])))])

\* sort_files_by_part
sort_files_by_part(files) ==
    Sorted(files, [i \in 1..Len(files) |-> extract_part_number(files[i].filename)])

(***************************************************************************)
(* The two endpoints.  A result records what the handler did: the status   *)
(* and error of the response, the list handed to the merge function, the   *)
(* merge function called, and the output directory it left.                *)
(***************************************************************************)
Upload(filename, file) == [filename |-> filename, file |-> file]
None == [filename |-> <<>>, file |-> NoFile]

\* raise HTTPException(status_code=400, ...) before any merge
Reject(detail, is_archive, extracted_files, dir) ==
    [status |-> 400, detail |-> detail, is_archive |-> is_archive,
     extracted_files |-> extracted_files, merge_fn |-> "none",
     merge_input |-> <<>>, merged |-> <<>>, output_path |-> <<>>, dir |-> dir]

\* an output path that leaves the extension out
OutputPathNoExt(output_filename, file_ext) == UploadsDir \o output_filename

\* output_path = f"uploads/{output_filename}{file_ext}"
OutputPath(output_filename, file_ext) == UploadsDir \o output_filename \o file_ext

\* file_ext = ...; output_path = ...; if file_ext == '.pdf': merge_pdf_files(...)
\* else: merge_docx_files_custom(...); an exception of the merge is a 500
Dispatch(store, paths, output_filename, is_archive, extracted_files, dir) ==
    LET file_ext == PathExt(paths[1])
        output_path == OutputPath(output_filename, file_ext)
        inputs == ReadAll(store, paths)
        merge_fn == IF file_ext = ExtPdf THEN "merge_pdf_files"
                    ELSE "merge_docx_files_custom"
        r == IF file_ext = ExtPdf
             THEN merge_pdf_files(inputs, ReadOut(dir, output_path))
             ELSE merge_docx_files_custom(inputs, ReadOut(dir, output_path))
    IN [status |-> IF r.ok THEN 200 ELSE 500,
        detail |-> IF r.ok THEN "ok" ELSE "merge_failed",
        is_archive |-> is_archive, extracted_files |-> extracted_files,
        merge_fn |-> merge_fn, merge_input |-> paths, merged |-> inputs,
        output_path |-> output_path, dir |-> Store(dir, output_path, r.file)]

\* a type check that lets every list through
SameTypeAlways(paths) == TRUE

\* len(set(file_extensions)) > 1 is false
SameType(paths) == Cardinality({PathExt(paths[i]) : i \in 1..Len(paths)}) <= 1

\* the archive branch of both endpoints: filter, reject an empty or a mixed
\* list, sort, merge
MergeExtracted(store, extracted_files, output_filename, dir) ==
    LET filtered_files == filter_files_by_extension(extracted_files)
    IN IF filtered_files = <<>>
       THEN Reject("no_documents", TRUE, extracted_files, dir)
       ELSE IF ~SameType(filtered_files)
       THEN Reject("mixed_types", TRUE, extracted_files, dir)
       ELSE Dispatch(store, SortPaths(filtered_files), output_filename, TRUE,
                     extracted_files, dir)

\* the loop "for file in files" of merge_files
RECURSIVE SaveUploads(_, _, _)
SaveUploads(files, i, st) ==
    IF i > Len(files) THEN st
    ELSE LET file == files[i]
             file_ext == Lower(SplitExt(file.filename))
             temp_file_path == TempPath(<<>>, file.filename)
             saved == Append(st.store, [path |-> temp_file_path, file |-> file.file])
         IN IF file_ext \in ArchiveExtensions
            THEN LET extract_dir == <<"e", "x", "t", "r", "a", "c", "t", "e", "d", "_">>
                                      \o Basename(file.filename)
                     r == ExtractOne(FullPath(temp_file_path), file.file)
                 IN IF ~r.ok
                    THEN [st EXCEPT !.store = saved, !.is_archive = TRUE,
                                    !.failed = TRUE]
                    ELSE SaveUploads(files, i + 1,
                           [st EXCEPT !.store = saved \o ExtractAll(extract_dir, file.file.data),
                                      !.is_archive = TRUE,
                                      !.extracted_files =
                                          st.extracted_files \o JoinAll(extract_dir, r.extracted_files)])
            ELSE SaveUploads(files, i + 1,
                   [st EXCEPT !.store = saved,
                              !.temp_file_paths = Append(st.temp_file_paths, temp_file_path)])

\* POST /merge/
merge_files(files, output_filename, dir) ==
    IF files = <<>> THEN Reject("no_files", FALSE, <<>>, dir)
    ELSE
    LET st == SaveUploads(files, 1, [store |-> <<>>, extracted_files |-> <<>>,
                                     temp_file_paths |-> <<>>, is_archive |-> FALSE,
                                     failed |-> FALSE])
    IN IF st.failed THEN Reject("extract_error", TRUE, st.extracted_files, dir)
       ELSE IF st.is_archive
       THEN MergeExtracted(st.store, st.extracted_files, output_filename, dir)
       ELSE LET paths == [i \in 1..Len(files) |-> TempPath(<<>>, files[i].filename)]
                sorted_files == sort_files_by_part(files)
                temp_file_paths ==
                    [i \in 1..Len(files) |-> TempPath(<<>>, sorted_files[i].filename)]
            IN IF \E i \in 1..Len(paths) : ~IsValidPath(paths[i])
               THEN Reject("unsupported_type", FALSE, <<>>, dir)
               ELSE IF ~SameType(paths)
               THEN Reject("mixed_types", FALSE, <<>>, dir)
               ELSE Dispatch(st.store, temp_file_paths, output_filename, FALSE, <<>>, dir)

\* actual_file = file or data or archive, else the first upload of the form
ActualFile(form) ==
    IF form.file # None THEN form.file
    ELSE IF form.data # None THEN form.data
    ELSE IF form.archive # None THEN form.archive
    ELSE form.other

\* POST /api/merge/
api_merge_files(form, output_filename, dir) ==
    LET actual_file == ActualFile(form)
    IN IF actual_file = None THEN Reject("no_file", FALSE, <<>>, dir)
       ELSE IF Lower(SplitExt(actual_file.filename)) \notin ArchiveExtensions
       THEN Reject("not_an_archive", FALSE, <<>>, dir)
       ELSE LET temp_file_path == TempPath(<<>>, actual_file.filename)
                extract_dir == <<"e", "x", "t", "r", "a", "c", "t", "e", "d">>
                r == ExtractOne(FullPath(temp_file_path), actual_file.file)
                store == <<[path |-> temp_file_path, file |-> actual_file.file]>>
                           \o ExtractAll(extract_dir, actual_file.file.data)
            IN IF ~r.ok THEN Reject("extract_error", TRUE, <<>>, dir)
               ELSE MergeExtracted(store, JoinAll(extract_dir, r.extracted_files),
                                   output_filename, dir)

(***************************************************************************)
(* Requests.  The handlers are coroutines without an await between their   *)
(* first statement and their return, so a handler runs as one step of the  *)
(* event loop; the FileResponse it returns reads output_path when the      *)
(* response is sent, which is a later step.                                *)
(***************************************************************************)
Idle == [phase |-> "idle"]

Handled(endpoint, input, res, before) ==
    [phase |-> IF res.status = 200 THEN "handled" ELSE "failed",
     endpoint |-> endpoint, input |-> input,
     output_filename |-> input.output_filename,
     status |-> res.status, detail |-> res.detail,
     is_archive |-> res.is_archive, extracted_files |-> res.extracted_files,
     merge_fn |-> res.merge_fn, merge_input |-> res.merge_input,
     merged |-> res.merged, output_path |-> res.output_path,
     wrote |-> res.dir # before,
     written |-> ReadOut(res.dir, res.output_path),
     body |-> NoFile]

MergeFilesOn(r, inputs) ==
    /\ reqs[r].phase = "idle"
    /\ \E input \in inputs :
          LET res == merge_files(input.files, input.output_filename, uploads)
          IN /\ uploads' = res.dir
             /\ reqs' = [reqs EXCEPT ![r] = Handled("/merge/", input, res, uploads)]
    /\ UNCHANGED call

ApiMergeFilesOn(r, inputs) ==
    /\ reqs[r].phase = "idle"
    /\ \E input \in inputs :
          LET res == api_merge_files(input.form, input.output_filename, uploads)
          IN /\ uploads' = res.dir
             /\ reqs' = [reqs EXCEPT ![r] = Handled("/api/merge/", input, res, uploads)]
    /\ UNCHANGED call

\* FileResponse(path=output_path): the body is the file as it is when sent
SendFileResponse(r) ==
    /\ reqs[r].phase = "handled"
    /\ reqs' = [reqs EXCEPT ![r].phase = "responded",
                            ![r].body = ReadOut(uploads, reqs[r].output_path)]
    /\ UNCHANGED <<uploads, call>>

(***************************************************************************)
(* The requests of Spec (one request) and of SpecConc (two requests).      *)
(***************************************************************************)
DirectPool ==
    { Upload(NamePart2Pdf, PdfB), Upload(NamePart1Pdf, PdfA),
      Upload(NamePart1Pdf, PdfB), Upload(NameNoPartPdf, PdfA),
      Upload(NamePart1Docx, DocxA), Upload(NamePart2Docx, DocxB),
      Upload(NameTxt, Junk), Upload(NameUnreadablePdf, Junk) }

ArchivePool ==
    { Upload(<<"c">> \o ExtZip,
             Archive("zip", <<Member(NamePart2Pdf, PdfB), Member(NamePart1Pdf, PdfA),
                              Member(NameTxt, Junk)>>)),
      Upload(<<"e">> \o ExtZip,
             Archive("zip", <<Member(NamePart1Pdf, PdfA), Member(NamePart1Docx, DocxA)>>)),
      Upload(<<"f">> \o ExtRar,
             Archive("rar", <<Member(NamePart2Docx, DocxB), Member(NamePart1Docx, DocxA)>>)),
      Upload(<<"g">> \o ExtZip,
             Archive("rar", <<Member(NamePart1Pdf, PdfA)>>)),
      Upload(<<"h">> \o ExtZip,
             Archive("zip", <<Member(NameTxt, Junk), DirEntry(NameDir)>>)) }

MergeInputs(pool, n, names) ==
    {[files |-> f, output_filename |-> o] : f \in Lists(pool, n) \ {<<>>}, o \in names}

Forms(a) ==
    { [file |-> a, data |-> None, archive |-> None, other |-> None],
      [file |-> None, data |-> a, archive |-> Upload(NameTxt, Junk), other |-> None],
      [file |-> None, data |-> None, archive |-> a, other |-> None],
      [file |-> None, data |-> None, archive |-> None, other |-> a] }

\* every archive of generated under the parameter file, the uploads of
\* fixed under each of the parameters
ApiInputs(generated, fixed, names) ==
    {[form |-> f, output_filename |-> o] :
        f \in {[file |-> a, data |-> None, archive |-> None, other |-> None] :
                  a \in generated}
              \cup UNION {Forms(a) : a \in fixed \cup {None}},
        o \in names}

ApiArchives ==
    {Upload(name, Archive(fmt, members)) :
        name \in {<<"c">> \o ExtZip, <<"c">> \o ExtRar},
        fmt \in {"zip", "rar"},
        members \in Lists(MemberPool, MaxMembers)}

OutNames == {<<"m">>}

PostMerge ==
    \E r \in DOMAIN reqs :
        MergeFilesOn(r, MergeInputs(DirectPool \cup ArchivePool, MaxFiles, OutNames))

PostApiMerge ==
    \E r \in DOMAIN reqs :
        ApiMergeFilesOn(r, ApiInputs(ApiArchives, ArchivePool \cup DirectPool, OutNames))

Respond == \E r \in DOMAIN reqs : SendFileResponse(r)

Init ==
    /\ uploads = <<>>
    /\ reqs = [r \in {1} |-> Idle]
    /\ call = NoCall

Next == PostMerge \/ PostApiMerge \/ Respond

Spec == Init /\ [][Next]_vars

ConcPool ==
    { Upload(NamePart2Pdf, PdfB), Upload(NamePart1Pdf, PdfA),
      Upload(NamePart1Pdf, PdfB), Upload(NamePart1Docx, DocxA) }

ConcArchives ==
    { Upload(<<"c">> \o ExtZip,
             Archive("zip", <<Member(NamePart2Pdf, PdfB), Member(NamePart1Pdf, PdfA)>>)),
      Upload(<<"f">> \o ExtRar, Archive("rar", <<Member(NamePart2Docx, DocxB)>>)) }

ConcOutNames == {<<"m">>, <<"n">>}

ConcPostMerge ==
    \E r \in DOMAIN reqs :
        MergeFilesOn(r, MergeInputs(ConcPool, MaxConcFiles, ConcOutNames))

ConcPostApiMerge ==
    \E r \in DOMAIN reqs : ApiMergeFilesOn(r, ApiInputs({}, ConcArchives, ConcOutNames))

InitConc ==
    /\ uploads = <<>>
    /\ reqs = [r \in {1, 2} |-> Idle]
    /\ call = NoCall

NextConc == ConcPostMerge \/ ConcPostApiMerge \/ Respond

SpecConc == InitConc /\ [][NextConc]_vars

(***************************************************************************)
(* What the claims say of a request, computed from the request's inputs.   *)
(***************************************************************************)
Reached(r) == reqs[r].phase # "idle"

IsArchiveName(name) == HasExtension(name, ExtZip) \/ HasExtension(name, ExtRar)
IsAcceptedName(name) == \E e \in ValidExtensions : HasExtension(name, e)

\* the uploads of a request, in upload order
UploadsOf(req) ==
    IF req.endpoint = "/merge/" THEN req.input.files
    ELSE <<ActualFile(req.input.form)>>

RECURSIVE MembersAsDocs(_, _)
MembersAsDocs(members, dir) ==
    IF members = <<>> THEN <<>>
    ELSE LET m == Head(members)
         IN (IF ~m.dir /\ IsAcceptedName(m.name)
             THEN <<[name |-> m.name, file |-> m.file, path |-> TempPath(dir, m.name)]>>
             ELSE <<>>)
            \o MembersAsDocs(Tail(members), dir)

ExtractDirOf(req, u) ==
    IF req.endpoint = "/merge/"
    THEN <<"e", "x", "t", "r", "a", "c", "t", "e", "d", "_">> \o u.filename
    ELSE <<"e", "x", "t", "r", "a", "c", "t", "e", "d">>

RECURSIVE ArchiveDocs(_, _, _)
ArchiveDocs(req, ups, i) ==
    IF i > Len(ups) THEN <<>>
    ELSE (IF IsArchiveName(ups[i].filename)
          THEN MembersAsDocs(ups[i].file.data, ExtractDirOf(req, ups[i]))
          ELSE <<>>)
         \o ArchiveDocs(req, ups, i + 1)

HasArchive(req) ==
    \E i \in 1..Len(UploadsOf(req)) : IsArchiveName(UploadsOf(req)[i].filename)

\* the documents of a request, in the order uploaded or listed: the accepted
\* members of its archives when it uploads an archive, else its uploads
Documents(req) ==
    IF HasArchive(req) THEN ArchiveDocs(req, UploadsOf(req), 1)
    ELSE [i \in 1..Len(UploadsOf(req)) |->
            [name |-> UploadsOf(req)[i].filename, file |-> UploadsOf(req)[i].file,
             path |-> TempPath(<<>>, UploadsOf(req)[i].filename)]]

PartIndex(doc) == extract_part_number(Basename(doc.name))

\* the place of document i in ascending part-index order, ties in input order
Rank(docs, i) ==
    1 + Cardinality({j \in 1..Len(docs) :
                        \/ PartIndex(docs[j]) < PartIndex(docs[i])
                        \/ (PartIndex(docs[j]) = PartIndex(docs[i]) /\ j < i)})

InPartOrder(docs) ==
    [k \in 1..Len(docs) |-> (CHOOSE i \in 1..Len(docs) : Rank(docs, i) = k)]

\* the merge of the documents' own contents taken in part-index order
MergeInPartOrder(req) ==
    LET docs == Documents(req)
        order == InPartOrder(docs)
        contents == [k \in 1..Len(docs) |-> docs[order[k]].file]
    IN IF req.merge_fn = "merge_pdf_files"
       THEN merge_pdf_files(contents, NoFile).file
       ELSE merge_docx_files_custom(contents, NoFile).file

(***************************************************************************)
(* C1                                                                      *)
(***************************************************************************)
\* C1: a request whose merge succeeded wrote the content of its documents in
\* ascending part-index order, documents of equal part index in their
\* original input order.
C1_MergedInPartOrder ==
    \A r \in DOMAIN reqs :
        (Reached(r) /\ reqs[r].status = 200) =>
            reqs[r].written.data = MergeInPartOrder(reqs[r]).data

\* no two documents of the request are saved under the same path
DistinctPaths(req) ==
    \A i, j \in 1..Len(Documents(req)) :
        Documents(req)[i].path = Documents(req)[j].path => i = j

\* the order of C1 for the requests whose documents have distinct paths
PartOrderOfDistinctPaths ==
    \A r \in DOMAIN reqs :
        (Reached(r) /\ reqs[r].status = 200 /\ DistinctPaths(reqs[r])) =>
            reqs[r].written.data = MergeInPartOrder(reqs[r]).data

(***************************************************************************)
(* C5                                                                      *)
(***************************************************************************)
NamesOfDocs(req) ==
    IF req.is_archive
    THEN {FullPath(req.extracted_files[i]) : i \in 1..Len(req.extracted_files)}
    ELSE {UploadsOf(req)[i].filename : i \in 1..Len(UploadsOf(req))}

\* the request got as far as a document set (it has an upload, and every
\* archive it uploads was extracted), and the set, after extension filtering,
\* has a .pdf and a .docx entry
MixedPdfDocx(req) ==
    /\ req.detail \notin {"no_file", "not_an_archive", "extract_error"}
    /\ \E n \in NamesOfDocs(req) : HasExtension(n, ExtPdf)
    /\ \E n \in NamesOfDocs(req) : HasExtension(n, ExtDocx)

NoMergeNoOutput(req) ==
    /\ req.status = 400
    /\ req.merge_fn = "none"
    /\ ~req.wrote

\* C5, as claimed: a request whose document set holds a .pdf and a .docx entry
\* ends with the HTTP 400 mixed-types error, calls no merge function and
\* writes no output file.
C5_MixedTypesError ==
    \A r \in DOMAIN reqs :
        (Reached(r) /\ MixedPdfDocx(reqs[r])) =>
            (NoMergeNoOutput(reqs[r]) /\ reqs[r].detail = "mixed_types")

\* direct uploads with a file of an unaccepted extension among them were
\* rejected by the check of the supported types, which comes first
UnsupportedUpload(req) ==
    /\ req.detail = "unsupported_type"
    /\ ~req.is_archive
    /\ \E i \in 1..Len(UploadsOf(req)) : ~IsAcceptedName(UploadsOf(req)[i].filename)

\* C5, amended: such a request ends with HTTP 400, calls no merge function and
\* writes no output file; the error is the mixed-types one, except for direct
\* uploads that also hold a file of an unaccepted extension, which get the
\* unsupported-type error.
C5_MixedTypesRejected ==
    \A r \in DOMAIN reqs :
        (Reached(r) /\ MixedPdfDocx(reqs[r])) =>
            /\ NoMergeNoOutput(reqs[r])
            /\ reqs[r].detail = "mixed_types" \/ UnsupportedUpload(reqs[r])

\* an archive with a .pdf and a .docx member was rejected as mixed
C5_Witness ==
    \E r \in DOMAIN reqs :
        /\ Reached(r) /\ MixedPdfDocx(reqs[r])
        /\ reqs[r].is_archive
        /\ reqs[r].detail = "mixed_types"
        /\ uploads = <<>>

(***************************************************************************)
(* C8                                                                      *)
(***************************************************************************)
\* the request uploaded archives, all of them were extracted, and the accepted
\* members are PDFs
ArchiveOfPdfs(req) ==
    /\ req.is_archive
    /\ req.detail # "extract_error"
    /\ \A i \in 1..Len(Documents(req)) : HasExtension(Documents(req)[i].name, ExtPdf)

AcceptedPaths(req) == {Documents(req)[i].path : i \in 1..Len(Documents(req))}

\* C8: of an extracted archive whose accepted members are PDFs, the merge
\* input is exactly the members with an accepted extension (compared without
\* case); members of other types are dropped without an error, and the request
\* is rejected with 400 only when no member has an accepted extension.
C8_FilterByExtension ==
    \A r \in DOMAIN reqs :
        (Reached(r) /\ ArchiveOfPdfs(reqs[r])) =>
            /\ reqs[r].status = 400 <=> AcceptedPaths(reqs[r]) = {}
            /\ AcceptedPaths(reqs[r]) # {} =>
                  /\ reqs[r].merge_fn = "merge_pdf_files"
                  /\ {reqs[r].merge_input[i] : i \in 1..Len(reqs[r].merge_input)}
                        = AcceptedPaths(reqs[r])

\* an archive with a .txt member, an upper-case .PDF member and a .pdf member
\* was merged from its two PDFs
C8_Witness ==
    \E r \in DOMAIN reqs :
        /\ Reached(r) /\ ArchiveOfPdfs(reqs[r])
        /\ reqs[r].status = 200
        /\ Len(reqs[r].extracted_files) = 3
        /\ \E i \in 1..3 : reqs[r].extracted_files[i].name = NameTxt
        /\ \E i \in 1..3 : reqs[r].extracted_files[i].name = NameNoPartPdf
        /\ Len(reqs[r].merge_input) = 2

(***************************************************************************)
(* C10                                                                     *)
(***************************************************************************)
Merged(r) == Reached(r) /\ reqs[r].status = 200

\* the output name and the extension of the request's source documents
NameAndType(req) ==
    <<req.output_filename,
      CHOOSE e \in ValidExtensions : HasExtension(FullPath(req.merge_input[1]), e)>>

\* no other request merged to the same output name and type
OwnOutputPath(r) ==
    \A o \in DOMAIN reqs \ {r} :
        Merged(o) => NameAndType(reqs[o]) # NameAndType(reqs[r])

\* the merge of the files the request read from its own temporary directory
OwnMerge(req) ==
    IF req.merge_fn = "merge_pdf_files"
    THEN merge_pdf_files(req.merged, NoFile).file
    ELSE merge_docx_files_custom(req.merged, NoFile).file

\* C10: while no other request merged to the same output name and type, the
\* output file of a request and the body of its response are the merge of its
\* own inputs.
C10_IsolatedOutputs ==
    \A r \in DOMAIN reqs :
        (Merged(r) /\ OwnOutputPath(r)) =>
            /\ ReadOut(uploads, UploadsDir \o NameAndType(reqs[r])[1] \o NameAndType(reqs[r])[2])
                  = OwnMerge(reqs[r])
            /\ reqs[r].phase = "responded" => reqs[r].body = OwnMerge(reqs[r])

\* two requests of the same output name and different types both answered
C10_Witness ==
    /\ DOMAIN reqs = {1, 2}
    /\ \A r \in {1, 2} : Merged(r) /\ reqs[r].phase = "responded"
    /\ reqs[1].output_filename = reqs[2].output_filename
    /\ NameAndType(reqs[1]) # NameAndType(reqs[2])
    /\ reqs[1].body # reqs[2].body

\* the race: a response carrying the output of the other request
C10_LastWriteWins ==
    \E r \in DOMAIN reqs :
        /\ Merged(r) /\ reqs[r].phase = "responded"
        /\ reqs[r].body # OwnMerge(reqs[r])

====
